---- MODULE Spec2Model ----
(***************************************************************************)
(* A model of the x86 / x86-64 instruction encoder of the assembler        *)
(* repository: StatementsBuffer (src/StatementsBuffer.rs) and the types it *)
(* consumes.  One behaviour is one session: a StatementsBuffer is created, *)
(* one instruction is encoded stage by stage, and finish() is called.      *)
(***************************************************************************)
EXTENDS Integers, Sequences, FiniteSets, TLC

VARIABLES
    insn,                       \* the inputs of the session (never change)
    pc,                         \* the stage the session is at
    accumulated_bytes_so_far,   \* StatementsBuffer.accumulated_bytes_so_far
    writer,                     \* StatementsBuffer.writer (a Write sink)
    opcode_bytes,               \* remaining_signature_opcode_bytes
    rm,                         \* the caller's rm option (taken by SHORT_ARG)
    remaining_arguments,        \* the caller's ArrayVec of remaining arguments
    relocations,                \* the Relocations returned by push_addressing
    outcome                     \* the last stage that ran, how it ended, and the
                                \* length of the byte buffer when it began

vars == <<insn, pc, accumulated_bytes_so_far, writer, opcode_bytes, rm,
          remaining_arguments, relocations, outcome>>

(***************************************************************************)
(* Bounds of the model.                                                    *)
(***************************************************************************)
\* longest list of remaining (immediate-like) arguments that is enumerated
MaxArgs == 2
\* the writer operation (write or flush) that fails ranges over 0..MaxFailAt,
\* 0 meaning that no operation fails
MaxFailAt == 30

(***************************************************************************)
(* Size                                                                    *)
(***************************************************************************)
in_bytes(size) ==
    CASE size = "BYTE"  -> 1
      [] size = "WORD"  -> 2
      [] size = "DWORD" -> 4
      [] size = "QWORD" -> 8

(***************************************************************************)
(* RegisterIdentifier and Register.  A register is a record of its family  *)
(* and its numeric identifier; [fam |-> "none"] stands for Option::None.   *)
(***************************************************************************)
Reg(fam, id) == [fam |-> fam, id |-> id]
NoRegister == Reg("none", 0)

RAX == 0
RCX == 1
RSP == 4
RBP == 5
R9  == 9
R12 == 12
R13 == 13

code(id) == id
code_and_7(id) == id % 8
code_and_8(id) == ((id \div 8) % 2) * 8
code_and_8_then_invert(id) == 8 - code_and_8(id)

identifier(register) == register.id

\* Register::addressing_uses_rbp_base: the base is RBP or R13
addressing_uses_rbp_base(base) ==
    base.fam = "gp" /\ (base.id = RBP \/ base.id = R13)

\* Register::addressing_mode_is_rip_relative: the base is the RIP pseudo-register
addressing_mode_is_rip_relative(base) == base.fam = "rip"

(***************************************************************************)
(* SizedMnemonicArgument, ParsedIndirectMemoryReferenceIndex, JumpVariant. *)
(* [kind |-> "None"] stands for Option::None.  Expressions are opaque      *)
(* names; "None" is the absent expression.                                 *)
(***************************************************************************)
NoArgument == [kind |-> "None"]
DirectRegisterReference(register, size) ==
    [kind |-> "DirectRegisterReference", register |-> register, size |-> size]
IndirectMemoryReference(displacement_size, base, index, displacement) ==
    [kind |-> "IndirectMemoryReference", displacement_size |-> displacement_size,
     base |-> base, index |-> index, displacement |-> displacement]
IndirectJumpTarget(jump_variant, size) ==
    [kind |-> "IndirectJumpTarget", jump_variant |-> jump_variant, size |-> size]
Immediate(value, size) == [kind |-> "Immediate", value |-> value, size |-> size]
JumpTarget(jump_variant, size) ==
    [kind |-> "JumpTarget", jump_variant |-> jump_variant, size |-> size]

NoIndex == [kind |-> "None"]
Index(register, scale, expression) ==
    [kind |-> "Some", register |-> register, scale |-> scale,
     expression |-> expression]

JumpVariant(variant, target) == [variant |-> variant, target |-> target]

\* ParsedIndirectMemoryReferenceIndex::addressing_mode_is_vector_scaled_index_byte
addressing_mode_is_vector_scaled_index_byte(index) ==
    index.kind = "Some" /\ index.register.fam = "vec"

\* ParsedIndirectMemoryReferenceIndex::encode_scale
encode_scale(scale) ==
    CASE scale = 1 -> 0
      [] scale = 2 -> 1
      [] scale = 4 -> 2
      [] scale = 8 -> 3

\* AddressSize::is_16_bit_addressing
is_16_bit_addressing(address_size) == address_size = "WORD"

(***************************************************************************)
(* MnemonicDefinitionSignature: its flags and reg_k.                       *)
(***************************************************************************)
contains_flags(signature, flag) == flag \in signature.flags
intersects_flags(signature, flags) == signature.flags \cap flags # {}
VexOperationOrXopOperation == {"VEX_OP", "XOP_OP"}

reg_k(signature, reg) ==
    IF reg.kind = "DirectRegisterReference" THEN identifier(reg.register) ELSE RAX

(***************************************************************************)
(* The writer W: Write.  out is what reached the sink, in order; ops       *)
(* counts the operations (writes and flushes) performed on it; the         *)
(* operation numbered fail_at returns an io::Error and writes nothing      *)
(* (0: none fails); flushes counts the calls of Write::flush.              *)
(***************************************************************************)
Token(t, v) == [t |-> t, v |-> v]

NewWriter(fail_at) == [out |-> <<>>, ops |-> 0, fail_at |-> fail_at, flushes |-> 0]

\* one write!/writeln! on the writer: [writer, ok]
write(w, token) ==
    LET failed == w.ops + 1 = w.fail_at
    IN  [writer |-> [w EXCEPT !.ops = @ + 1,
                              !.out = IF failed THEN @ ELSE Append(@, token)],
         ok |-> ~failed]

\* Write::flush on the writer: [writer, ok]
writer_flush(w) ==
    LET failed == w.ops + 1 = w.fail_at
    IN  [writer |-> [w EXCEPT !.ops = @ + 1, !.flushes = @ + 1],
         ok |-> ~failed]

\* writes whose io::Result is dropped, one after the other
RECURSIVE write_ignoring_result(_, _)
write_ignoring_result(w, tokens) ==
    IF tokens = <<>> THEN w
    ELSE write_ignoring_result(write(w, Head(tokens)).writer, Tail(tokens))

(***************************************************************************)
(* StatementsBuffer: self is [accumulated_bytes_so_far, writer].  An       *)
(* operation yields a record with the new self and a status: "Ok", "Err"   *)
(* (an Err is returned) or "Panic" (the thread unwinds).                   *)
(***************************************************************************)
Self(bytes, w) == [accumulated_bytes_so_far |-> bytes, writer |-> w]
Returns(self, status) == [self |-> self, status |-> status]

push_byte(self, byte) ==
    [self EXCEPT !.accumulated_bytes_so_far = Append(@, byte)]

push_bytes(self, bytes) ==
    [self EXCEPT !.accumulated_bytes_so_far = @ \o bytes]

push_byte_if_some(self, byte) ==
    IF byte # <<>> THEN push_byte(self, byte[1]) ELSE self

push_byte_if(self, condition, byte) ==
    IF condition THEN push_byte(self, byte) ELSE self

\* the little-endian bytes of value, width of them
RECURSIVE to_le(_, _)
to_le(value, width) ==
    IF width = 0 THEN <<>> ELSE <<value % 256>> \o to_le(value \div 256, width - 1)

push_u16(self, value) == push_bytes(self, to_le(value, 2))
push_u32(self, value) == push_bytes(self, to_le(value, 4))
push_u64(self, value) == push_bytes(self, to_le(value, 8))

push_unsigned_constant(self, value, size) ==
    CASE size = "BYTE"  -> push_byte(self, value % 256)
      [] size = "WORD"  -> push_u16(self, value)
      [] size = "DWORD" -> push_u32(self, value)
      [] size = "QWORD" -> push_u64(self, value)

push_mod_rm_byte_or_scaled_index_byte(self, mod_or_scale, reg1, reg2) ==
    push_byte(self, ((mod_or_scale * 64) % 256) + code_and_7(reg1) * 8 + code_and_7(reg2))

\* the loop of flush_bytes over the bytes from position i on; every write
\* in it is followed by `?`: [writer, ok]
RECURSIVE write_byte_array(_, _, _)
write_byte_array(w, bytes, i) ==
    IF i > Len(bytes) THEN [writer |-> w, ok |-> TRUE]
    ELSE LET sep == IF i > 1 THEN write(w, Token("separator", 0))
                    ELSE [writer |-> w, ok |-> TRUE]
         IN  IF ~sep.ok THEN sep
             ELSE LET one == write(sep.writer, Token("byte", bytes[i]))
                  IN  IF ~one.ok THEN one
                      ELSE write_byte_array(one.writer, bytes, i + 1)

flush_bytes(self) ==
    LET bytes  == self.accumulated_bytes_so_far
        length == Len(bytes)
    IN  IF length = 0 THEN Returns(self, "Ok")
        ELSE IF length = 1
        THEN Returns(Self(<<>>,
                 write_ignoring_result(self.writer,
                     <<Token("debug_assert", 1), Token("store", bytes[1]),
                       Token("offset", 1)>>)), "Ok")
        ELSE LET head == write_ignoring_result(self.writer,
                             <<Token("debug_assert", length), Token("copy_open", 0)>>)
                 loop == write_byte_array(head, bytes, 1)
             IN  IF ~loop.ok THEN Returns(Self(bytes, loop.writer), "Err")
                 ELSE Returns(Self(<<>>,
                          write_ignoring_result(loop.writer,
                              <<Token("copy_close", length), Token("offset", length)>>)),
                          "Ok")

\* the symbolic emissions: flush_bytes()?; unimplemented!()
push_signed_expression(self, value, size) ==
    LET flushed == flush_bytes(self)
    IN  IF flushed.status = "Ok" THEN Returns(flushed.self, "Panic") ELSE flushed

push_unsigned_expression(self, value, size) ==
    LET flushed == flush_bytes(self)
    IN  IF flushed.status = "Ok" THEN Returns(flushed.self, "Panic") ELSE flushed

\* the five jump target emissions, none of them called by a stage
push_global_jump_target(self, ident, offset, size_in_bytes, protected_mode_relocation_id) ==
    LET flushed == flush_bytes(self)
    IN  IF flushed.status = "Ok" THEN Returns(flushed.self, "Panic") ELSE flushed

push_forward_jump_target(self, ident, offset, size_in_bytes, protected_mode_relocation_id) ==
    LET flushed == flush_bytes(self)
    IN  IF flushed.status = "Ok" THEN Returns(flushed.self, "Panic") ELSE flushed

push_backward_jump_target(self, ident, offset, size_in_bytes, protected_mode_relocation_id) ==
    LET flushed == flush_bytes(self)
    IN  IF flushed.status = "Ok" THEN Returns(flushed.self, "Panic") ELSE flushed

push_dynamic_jump_target(self, expression, offset, size_in_bytes, protected_mode_relocation_id) ==
    LET flushed == flush_bytes(self)
    IN  IF flushed.status = "Ok" THEN Returns(flushed.self, "Panic") ELSE flushed

push_bare_jump_target(self, expression, offset, size_in_bytes, protected_mode_relocation_id) ==
    LET flushed == flush_bytes(self)
    IN  IF flushed.status = "Ok" THEN Returns(flushed.self, "Panic") ELSE flushed

push_scaled_index_byte_with_scale_calculated_by_expression(self, scale, expression, reg1, reg2) ==
    Returns(self, "Panic")

write_preamble(w) ==
    LET before == write_ignoring_result(w, [i \in 1..8 |-> Token("preamble", i)])
    IN  write(before, Token("preamble", 9))

write_postamble(w) ==
    LET before == write_ignoring_result(w, [i \in 1..4 |-> Token("postamble", i)])
    IN  write(before, Token("postamble", 5))

finish(self) ==
    LET flushed == flush_bytes(self)
    IN  IF flushed.status # "Ok" THEN flushed
        ELSE LET post == write_postamble(flushed.self.writer)
             IN  IF ~post.ok
                 THEN Returns(Self(flushed.self.accumulated_bytes_so_far, post.writer), "Err")
                 ELSE LET last == writer_flush(post.writer)
                      IN  Returns(Self(flushed.self.accumulated_bytes_so_far, last.writer),
                                  IF last.ok THEN "Ok" ELSE "Err")

(***************************************************************************)
(* The prefix encoder.                                                     *)
(***************************************************************************)
\* the (base_k, index_k) pair that push_vex_xop and
\* push_rex_prefix_opcode_byte take from rm, RAX being the placeholder
base_k_and_index_k(rm_) ==
    CASE rm_.kind = "DirectRegisterReference" ->
            [base_k |-> identifier(rm_.register), index_k |-> RAX]
      [] rm_.kind = "IndirectMemoryReference" ->
            [base_k  |-> IF rm_.base.fam # "none" THEN identifier(rm_.base) ELSE RAX,
             index_k |-> IF rm_.index.kind = "Some"
                         THEN identifier(rm_.index.register) ELSE RAX]
      [] OTHER -> [base_k |-> RAX, index_k |-> RAX]

direct_register_or_RAX(argument) ==
    IF argument.kind = "DirectRegisterReference"
    THEN identifier(argument.register) ELSE RAX

vex_byte1(mode, reg, rm_, map_sel_opcode_base_byte) ==
    IF mode = "Long"
    THEN LET k == base_k_and_index_k(rm_)
         IN  (map_sel_opcode_base_byte % 32)
             + ((code_and_8_then_invert(direct_register_or_RAX(reg)) * 16) % 256)
             + ((code_and_8_then_invert(k.index_k) * 8) % 256)
             + ((code_and_8_then_invert(k.base_k) * 4) % 256)
    ELSE (map_sel_opcode_base_byte % 32) + 224

vex_byte2(rex_w_prefix_is_needed, vvvv, vex_l_prefix_is_needed, prefix) ==
    (prefix % 4)
    + (IF rex_w_prefix_is_needed THEN 128 ELSE 0)
    + (((15 - (code(direct_register_or_RAX(vvvv)) % 16)) * 8) % 256)
    + (IF vex_l_prefix_is_needed THEN 4 ELSE 0)

\* the test of the 2-byte VEX form
is_2_byte_vex(signature, byte1, byte2) ==
    contains_flags(signature, "VEX_OP") /\ byte1 % 128 = 97 /\ byte2 < 128

push_vex_xop(self, mode, signature, reg, rm_, map_sel_opcode_base_byte, rex_w_prefix_is_needed, vvvv, vex_l_prefix_is_needed, prefix) ==
    LET byte1 == vex_byte1(mode, reg, rm_, map_sel_opcode_base_byte)
        byte2 == vex_byte2(rex_w_prefix_is_needed, vvvv, vex_l_prefix_is_needed, prefix)
        two   == IF is_2_byte_vex(signature, byte1, byte2)
                 THEN push_byte(push_byte(self, 197),
                                ((byte1 \div 128) * 128) + (byte2 % 128))
                 ELSE self
        lead  == push_byte(two, IF contains_flags(signature, "VEX_OP") THEN 196 ELSE 143)
    IN  push_byte(push_byte(lead, byte1), byte2)

\* the REX byte without the bit of the index register
rex_prefix_opcode_byte_without_x_bit(rex_w_prefix_is_needed, reg, rm_) ==
    LET k == base_k_and_index_k(rm_)
    IN  64 + (IF rex_w_prefix_is_needed THEN 8 ELSE 0)
           + (code_and_8(direct_register_or_RAX(reg)) \div 2)
           + (code_and_8(k.base_k) \div 8)

rex_prefix_opcode_byte(rex_w_prefix_is_needed, reg, rm_) ==
    LET k == base_k_and_index_k(rm_)
    IN  64 + (IF rex_w_prefix_is_needed THEN 8 ELSE 0)
           + (code_and_8(direct_register_or_RAX(reg)) \div 2)
           + (code_and_8(k.index_k) \div 4)
           + (code_and_8(k.base_k) \div 8)

push_rex_prefix_opcode_byte(self, rex_w_prefix_is_needed, reg, rm_) ==
    push_byte(self, rex_prefix_opcode_byte(rex_w_prefix_is_needed, reg, rm_))

\* the pp field of the VEX/XOP branch
vex_prefix_field(size_prefix_is_needed, legacy_prefix_modification) ==
    IF size_prefix_is_needed THEN 1
    ELSE CASE legacy_prefix_modification = <<243>> -> 1
           [] legacy_prefix_modification = <<242>> -> 3
           [] OTHER -> 0

RexImpossible ==
    "Some SSE and AVX legacy encoded operations are not possible in 32-bit mode as they require a REX.W prefix to be encoded, which is impossible"

\* the prefix encoder without its test of the mode: a REX byte is pushed in
\* Protected mode too
push_prefixes_without_mode_test(self, mode, signature, remaining_signature_opcode_bytes, size_prefix_is_needed, legacy_prefix_modification, rex_prefix_is_needed, rex_w_prefix_is_needed, vex_l_prefix_is_needed, reg, rm_, vvvv) ==
    IF intersects_flags(signature, VexOperationOrXopOperation)
    THEN IF remaining_signature_opcode_bytes = <<>>
         THEN [self |-> self, status |-> "Panic", tail |-> <<>>]
         ELSE [self |-> push_vex_xop(self, mode, signature, reg, rm_,
                            Head(remaining_signature_opcode_bytes),
                            rex_w_prefix_is_needed, vvvv, vex_l_prefix_is_needed,
                            vex_prefix_field(size_prefix_is_needed,
                                             legacy_prefix_modification)),
               status |-> "Ok",
               tail |-> Tail(remaining_signature_opcode_bytes)]
    ELSE LET legacy == push_byte_if(push_byte_if_some(self, legacy_prefix_modification),
                                    size_prefix_is_needed, 102)
         IN  [self |-> IF rex_prefix_is_needed
                       THEN push_rex_prefix_opcode_byte(legacy, rex_w_prefix_is_needed,
                                                        reg, rm_)
                       ELSE legacy,
              status |-> "Ok", tail |-> remaining_signature_opcode_bytes]

\* [self, status, tail]: status is "Ok", "Panic" (the expect on split_first)
\* or the reason of the InstructionEncodingError
push_vex_and_xop_prefixes_or_operand_size_modification_and_rex_prefixes(self, mode, signature, remaining_signature_opcode_bytes, size_prefix_is_needed, legacy_prefix_modification, rex_prefix_is_needed, rex_w_prefix_is_needed, vex_l_prefix_is_needed, reg, rm_, vvvv) ==
    IF intersects_flags(signature, VexOperationOrXopOperation)
    THEN IF remaining_signature_opcode_bytes = <<>>
         THEN [self |-> self, status |-> "Panic", tail |-> <<>>]
         ELSE [self |-> push_vex_xop(self, mode, signature, reg, rm_,
                            Head(remaining_signature_opcode_bytes),
                            rex_w_prefix_is_needed, vvvv, vex_l_prefix_is_needed,
                            vex_prefix_field(size_prefix_is_needed,
                                             legacy_prefix_modification)),
               status |-> "Ok",
               tail |-> Tail(remaining_signature_opcode_bytes)]
    ELSE LET legacy == push_byte_if(push_byte_if_some(self, legacy_prefix_modification),
                                    size_prefix_is_needed, 102)
         IN  IF rex_prefix_is_needed
             THEN IF mode = "Protected"
                  THEN [self |-> legacy, status |-> RexImpossible,
                        tail |-> remaining_signature_opcode_bytes]
                  ELSE [self |-> push_rex_prefix_opcode_byte(legacy,
                                     rex_w_prefix_is_needed, reg, rm_),
                        status |-> "Ok", tail |-> remaining_signature_opcode_bytes]
             ELSE [self |-> legacy, status |-> "Ok",
                   tail |-> remaining_signature_opcode_bytes]

(***************************************************************************)
(* Short-arg opcode embedding.                                             *)
(***************************************************************************)
\* [self, status, rm]: rm is the caller's option after rm.take()
push_r_m_last_opcode_byte(self, signature, remaining_signature_opcode_bytes, rm_) ==
    IF contains_flags(signature, "SHORT_ARG")
    THEN IF remaining_signature_opcode_bytes = <<>>
         THEN [self |-> self, status |-> "Panic", rm |-> rm_]
         ELSE LET n    == Len(remaining_signature_opcode_bytes)
                  last_opcode_byte == remaining_signature_opcode_bytes[n]
                  head == SubSeq(remaining_signature_opcode_bytes, 1, n - 1)
                  pushed == push_bytes(self, head)
              IN  CASE rm_.kind = "None" ->
                        [self |-> pushed, status |-> "Panic", rm |-> NoArgument]
                    [] rm_.kind = "DirectRegisterReference" ->
                        [self |-> push_byte(pushed,
                                    (last_opcode_byte
                                     + code_and_7(identifier(rm_.register))) % 256),
                         status |-> "Ok", rm |-> NoArgument]
                    [] OTHER ->
                        [self |-> pushed, status |-> "Ok", rm |-> NoArgument]
    ELSE [self |-> push_bytes(self, remaining_signature_opcode_bytes),
          status |-> "Ok", rm |-> rm_]

(***************************************************************************)
(* Relocations: an ordered list of entries {kind, offset, size, payload}   *)
(* and the current offset, which bump advances and a push records.         *)
(***************************************************************************)
new_relocations(mode) == [mode |-> mode, offset |-> 0, entries |-> <<>>]

bump(relocs, size) == [relocs EXCEPT !.offset = @ + in_bytes(size)]

Relocation(kind, offset, size, payload) ==
    [kind |-> kind, offset |-> offset, size |-> size, payload |-> payload]

push_jump_target_addressing(relocs, target, size) ==
    [relocs EXCEPT !.entries =
        Append(@, Relocation("JumpTargetRelative", relocs.offset, size, target))]

push_relative(relocs, target, size) ==
    [relocs EXCEPT !.entries =
        Append(@, Relocation("JumpTargetRelative", relocs.offset, size, target))]

\* [relocations, ok]: the relocation backend may refuse to register an extern
push_extern(relocs, target, size, accepted) ==
    [relocations |->
        IF accepted
        THEN [relocs EXCEPT !.entries =
                 Append(@, Relocation("Extern", relocs.offset, size, target))]
        ELSE relocs,
     ok |-> accepted]

(***************************************************************************)
(* Addressing: the ModR/M byte, the SIB byte and the displacement.         *)
(***************************************************************************)
MOD_NO_DISPLACEMENT == 0
MOD_DISPLACEMENT_8  == 1
MOD_DISPLACEMENT_32 == 2
MOD_DIRECT == 3
MOD_NO_BASE_REGISTER == 0

Addressed(self, status, relocs) ==
    [self |-> self, status |-> status, relocations |-> relocs]

direct_mod_rm_addressing(self, mode, signature, reg, rm_register) ==
    Addressed(push_mod_rm_byte_or_scaled_index_byte(self, MOD_DIRECT,
                  reg_k(signature, reg), identifier(rm_register)),
              "Ok", new_relocations(mode))

jump_target_relative_addressing(self, mode, signature, reg, target) ==
    Addressed(push_u32(push_mod_rm_byte_or_scaled_index_byte(self, MOD_NO_DISPLACEMENT,
                           reg_k(signature, reg), RBP), 0),
              "Ok",
              push_jump_target_addressing(new_relocations(mode), target, "DWORD"))

\* the Scaled Index Byte of an index: [self, status]
push_scaled_index_byte(self, index, base_id) ==
    IF index.expression # "None"
    THEN push_scaled_index_byte_with_scale_calculated_by_expression(self,
             index.scale, index.expression, identifier(index.register), base_id)
    ELSE Returns(push_mod_rm_byte_or_scaled_index_byte(self,
                     encode_scale(index.scale), identifier(index.register), base_id),
                 "Ok")

vector_scaled_index_byte_mod(displacement_size, base, displacement) ==
    IF base.fam = "none" THEN MOD_NO_BASE_REGISTER
    ELSE CASE displacement # "None" /\ displacement_size = "BYTE"  -> MOD_DISPLACEMENT_8
           [] displacement # "None" /\ displacement_size = "DWORD" -> MOD_DISPLACEMENT_32
           [] displacement # "None" -> MOD_DISPLACEMENT_32
           [] OTHER -> MOD_DISPLACEMENT_8

indirect_mod_rm_and_scaled_index_byte_addressing_mode_is_vector_scaled_index_byte(self, mode, reg_k_, displacement_size, base, index, displacement) ==
    LET base_id == IF base.fam = "none" THEN RBP ELSE identifier(base)
        mod_    == vector_scaled_index_byte_mod(displacement_size, base, displacement)
        modrm   == push_mod_rm_byte_or_scaled_index_byte(self, mod_, reg_k_, RSP)
        sib     == push_scaled_index_byte(modrm, index, base_id)
    IN  IF sib.status # "Ok" THEN Addressed(sib.self, sib.status, new_relocations(mode))
        ELSE IF displacement # "None"
        THEN LET pushed == push_signed_expression(sib.self, displacement,
                               IF mod_ = MOD_DISPLACEMENT_8 THEN "BYTE" ELSE "DWORD")
             IN  Addressed(pushed.self, pushed.status, new_relocations(mode))
        ELSE Addressed(IF mod_ = MOD_DISPLACEMENT_8 THEN push_byte(sib.self, 0)
                       ELSE push_u32(sib.self, 0),
                       "Ok", new_relocations(mode))

sixteen_bit_mod(displacement_size, base, displacement) ==
    CASE displacement # "None" /\ displacement_size = "BYTE" -> MOD_DISPLACEMENT_8
      [] displacement # "None" -> MOD_DISPLACEMENT_32
      [] OTHER -> IF addressing_uses_rbp_base(base) THEN MOD_DISPLACEMENT_8
                  ELSE MOD_NO_DISPLACEMENT

indirect_mod_rm_and_scaled_index_byte_addressing_mode_is_16_bit(self, mode, reg_k_, displacement_size, base, displacement) ==
    IF base.fam = "none" THEN Addressed(self, "Panic", new_relocations(mode))
    ELSE LET mod_  == sixteen_bit_mod(displacement_size, base, displacement)
             modrm == push_mod_rm_byte_or_scaled_index_byte(self, mod_, reg_k_,
                          identifier(base))
         IN  IF displacement # "None"
             THEN LET pushed == push_signed_expression(modrm, displacement,
                                    IF mod_ = MOD_DISPLACEMENT_8 THEN "BYTE" ELSE "WORD")
                  IN  Addressed(pushed.self, pushed.status, new_relocations(mode))
             ELSE Addressed(IF mod_ = MOD_DISPLACEMENT_8 THEN push_byte(modrm, 0)
                            ELSE modrm,
                            "Ok", new_relocations(mode))

\* the RIP-relative sub-encoder without the Protected mode arm: both modes
\* are encoded as Long mode is
rip_relative_as_in_long_mode(self, reg_k_, displacement, mode) ==
    LET modrm == push_mod_rm_byte_or_scaled_index_byte(self, MOD_NO_DISPLACEMENT,
                     reg_k_, RBP)
    IN  IF displacement # "None"
        THEN LET pushed == push_signed_expression(modrm, displacement, "DWORD")
             IN  Addressed(pushed.self, pushed.status, new_relocations(mode))
        ELSE Addressed(push_u32(modrm, 0), "Ok", new_relocations(mode))

indirect_mod_rm_and_scaled_index_byte_addressing_mode_is_rip_relative(self, reg_k_, displacement, mode) ==
    LET modrm == push_mod_rm_byte_or_scaled_index_byte(self, MOD_NO_DISPLACEMENT,
                     reg_k_, RBP)
    IN  IF mode = "Long"
        THEN IF displacement # "None"
             THEN LET pushed == push_signed_expression(modrm, displacement, "DWORD")
                  IN  Addressed(pushed.self, pushed.status, new_relocations(mode))
             ELSE Addressed(push_u32(modrm, 0), "Ok", new_relocations(mode))
        ELSE Addressed(push_u32(modrm, 0), "Ok",
                 push_jump_target_addressing(new_relocations(mode),
                     JumpVariant("Bare",
                         IF displacement # "None" THEN displacement ELSE "zero"),
                     "DWORD"))

\* the MOD of the ordinary form without the rule for an RBP-like base
ordinary_mod_without_rbp_rule(displacement_size, base, displacement) ==
    IF displacement = "None" \/ base.fam = "none"
    THEN MOD_NO_DISPLACEMENT
    ELSE CASE displacement_size = "BYTE"  -> MOD_DISPLACEMENT_8
           [] displacement_size = "DWORD" -> MOD_DISPLACEMENT_32
           [] OTHER -> MOD_DISPLACEMENT_32

ordinary_mod(displacement_size, base, displacement) ==
    IF addressing_uses_rbp_base(base) /\ displacement = "None"
    THEN MOD_DISPLACEMENT_8
    ELSE IF displacement = "None" \/ base.fam = "none"
    THEN MOD_NO_DISPLACEMENT
    ELSE CASE displacement_size = "BYTE"  -> MOD_DISPLACEMENT_8
           [] displacement_size = "DWORD" -> MOD_DISPLACEMENT_32
           [] OTHER -> MOD_DISPLACEMENT_32

\* the ModR/M byte and, where one is needed, the Scaled Index Byte of the
\* ordinary form: [self, status]
ordinary_mod_rm_and_scaled_index_byte(self, mod_, reg_k_, base, index, mode) ==
    IF index.kind = "Some"
    THEN push_scaled_index_byte(
             push_mod_rm_byte_or_scaled_index_byte(self, mod_, reg_k_, RSP),
             index, IF base.fam # "none" THEN identifier(base) ELSE RBP)
    ELSE IF base.fam # "none"
    THEN Returns(push_mod_rm_byte_or_scaled_index_byte(self, mod_, reg_k_,
                     identifier(base)), "Ok")
    ELSE IF mode = "Protected"
    THEN Returns(push_mod_rm_byte_or_scaled_index_byte(self, mod_, reg_k_, RBP), "Ok")
    ELSE Returns(push_mod_rm_byte_or_scaled_index_byte(
                     push_mod_rm_byte_or_scaled_index_byte(self, mod_, reg_k_, RSP),
                     0, RSP, RBP), "Ok")

indirect_mod_rm_and_scaled_index_byte_addressing_mode_is_ordinary(self, reg_k_, displacement_size, base, index, displacement, mode) ==
    LET mod_ == ordinary_mod(displacement_size, base, displacement)
        head == ordinary_mod_rm_and_scaled_index_byte(self, mod_, reg_k_, base,
                    index, mode)
    IN  IF head.status # "Ok" THEN Addressed(head.self, head.status, new_relocations(mode))
        ELSE IF displacement # "None"
        THEN LET pushed == push_signed_expression(head.self, displacement,
                               IF mod_ = MOD_DISPLACEMENT_8 THEN "BYTE" ELSE "DWORD")
             IN  Addressed(pushed.self, pushed.status, new_relocations(mode))
        ELSE IF base.fam = "none"
        THEN Addressed(push_u32(head.self, 0), "Ok", new_relocations(mode))
        ELSE IF mod_ = MOD_DISPLACEMENT_8
        THEN Addressed(push_byte(head.self, 0), "Ok", new_relocations(mode))
        ELSE Addressed(head.self, "Ok", new_relocations(mode))

\* the dispatch with the RIP-relative test made first and the 16-bit test
\* before the vector index test
addressing_mode_rip_relative_first(base, index, address_size) ==
    IF addressing_mode_is_rip_relative(base) THEN "rip_relative"
    ELSE IF is_16_bit_addressing(address_size) THEN "16_bit"
    ELSE IF addressing_mode_is_vector_scaled_index_byte(index) THEN "vector_scaled_index_byte"
    ELSE "ordinary"

\* which sub-encoder an IndirectMemoryReference goes to
addressing_mode(base, index, address_size) ==
    IF addressing_mode_is_vector_scaled_index_byte(index) THEN "vector_scaled_index_byte"
    ELSE IF is_16_bit_addressing(address_size) THEN "16_bit"
    ELSE IF addressing_mode_is_rip_relative(base) THEN "rip_relative"
    ELSE "ordinary"

indirect_mod_rm_and_scaled_index_byte_addressing(self, mode, signature, reg, displacement_size, base, index, displacement, address_size) ==
    LET reg_k_ == reg_k(signature, reg)
        which  == addressing_mode(base, index, address_size)
    IN  CASE which = "vector_scaled_index_byte" ->
               indirect_mod_rm_and_scaled_index_byte_addressing_mode_is_vector_scaled_index_byte(
                   self, mode, reg_k_, displacement_size, base, index, displacement)
          [] which = "16_bit" ->
               indirect_mod_rm_and_scaled_index_byte_addressing_mode_is_16_bit(
                   self, mode, reg_k_, displacement_size, base, displacement)
          [] which = "rip_relative" ->
               indirect_mod_rm_and_scaled_index_byte_addressing_mode_is_rip_relative(
                   self, reg_k_, displacement, mode)
          [] OTHER ->
               indirect_mod_rm_and_scaled_index_byte_addressing_mode_is_ordinary(
                   self, reg_k_, displacement_size, base, index, displacement, mode)

\* [self, status, relocations]: status "Ok", "Err" (error_when_writing_machine_code)
\* or "Panic"
push_addressing(self, mode, signature, rm_, reg, address_size) ==
    CASE rm_.kind = "DirectRegisterReference" ->
            direct_mod_rm_addressing(self, mode, signature, reg, rm_.register)
      [] rm_.kind = "IndirectJumpTarget" ->
            jump_target_relative_addressing(self, mode, signature, reg, rm_.jump_variant)
      [] rm_.kind = "IndirectMemoryReference" ->
            indirect_mod_rm_and_scaled_index_byte_addressing(self, mode, signature, reg,
                rm_.displacement_size, rm_.base, rm_.index, rm_.displacement,
                address_size)
      [] OTHER -> Addressed(self, "Ok", new_relocations(mode))

(***************************************************************************)
(* The immediate opcode byte, the register in an immediate, the immediates.*)
(***************************************************************************)
\* [self, relocations]
push_immediate_opcode_byte_after_addressing_displacement(self, immediate_opcode_byte, relocs) ==
    IF immediate_opcode_byte # <<>>
    THEN [self |-> push_byte(self, immediate_opcode_byte[1]),
          relocations |-> bump(relocs, "BYTE")]
    ELSE [self |-> self, relocations |-> relocs]

\* RustExpression::literal_byte(..) and .or_with_masked_value(value, mask)
literal_byte(byte) == [literal |-> byte, masked |-> "None", mask |-> 0]
or_with_masked_value(expression, value, mask) ==
    [expression EXCEPT !.masked = value, !.mask = mask]

Immediated(self, status, arguments, relocs) ==
    [self |-> self, status |-> status, remaining_arguments |-> arguments,
     relocations |-> relocs]

\* [self, status, remaining_arguments, relocations]
push_register_in_immediate(self, ireg, arguments, relocs) ==
    IF ireg.kind = "DirectRegisterReference"
    THEN LET byte_literal == literal_byte((code(identifier(ireg.register)) * 16) % 256)
             first == IF arguments # <<>> THEN Head(arguments) ELSE NoArgument
             rest  == IF arguments # <<>> THEN Tail(arguments) ELSE arguments
         IN  IF arguments # <<>> /\ ~(first.kind = "Immediate" /\ first.size = "BYTE")
             THEN Immediated(self, "Panic", rest, relocs)
             ELSE LET byte_expression ==
                          IF arguments # <<>>
                          THEN or_with_masked_value(byte_literal, first.value, 15)
                          ELSE byte_literal
                      pushed == push_unsigned_expression(self, byte_expression, "BYTE")
                  IN  Immediated(pushed.self, pushed.status, rest,
                          IF pushed.status = "Ok" THEN bump(relocs, "BYTE") ELSE relocs)
    ELSE Immediated(self, "Ok", arguments, relocs)

ExternRefused == "extern relocation refused"

\* one turn of the loop of push_immediates
push_immediate_like_argument(self, argument, relocs, extern_accepted) ==
    CASE argument.kind = "Immediate" ->
            LET pushed == push_signed_expression(self, argument.value, argument.size)
            IN  Immediated(pushed.self, pushed.status, <<>>,
                    IF pushed.status = "Ok" THEN bump(relocs, argument.size) ELSE relocs)
      [] argument.kind = "JumpTarget" ->
            LET zeroes == push_unsigned_constant(self, 0, argument.size)
                bumped == bump(relocs, argument.size)
            IN  IF argument.jump_variant.variant = "Bare"
                THEN LET extern == push_extern(bumped, argument.jump_variant,
                                       argument.size, extern_accepted)
                     IN  Immediated(zeroes, IF extern.ok THEN "Ok" ELSE ExternRefused,
                                    <<>>, extern.relocations)
                ELSE Immediated(zeroes, "Ok", <<>>,
                         push_relative(bumped, argument.jump_variant, argument.size))
      [] OTHER -> Immediated(self, "Panic", <<>>, relocs)

\* [self, status, remaining_arguments, relocations]
RECURSIVE push_immediates(_, _, _, _)
push_immediates(self, arguments, relocs, extern_accepted) ==
    IF arguments = <<>> THEN Immediated(self, "Ok", <<>>, relocs)
    ELSE LET one == push_immediate_like_argument(self, Head(arguments), relocs,
                        extern_accepted)
         IN  IF one.status # "Ok" THEN one
             ELSE push_immediates(one.self, Tail(arguments), one.relocations,
                      extern_accepted)

(***************************************************************************)
(* The inputs of a session.                                                *)
(***************************************************************************)
Signature(flags, opcodes) == [flags |-> flags, opcode_bytes |-> opcodes]

Modes == {"Long", "Protected"}

\* MOV r/m, r (0x89) in Long mode with nothing else asked for
Plain ==
    [mode |-> "Long", signature |-> Signature({}, <<137>>),
     size_prefix_is_needed |-> FALSE, legacy_prefix_modification |-> <<>>,
     rex_prefix_is_needed |-> FALSE, rex_w_prefix_is_needed |-> FALSE,
     vex_l_prefix_is_needed |-> FALSE,
     reg |-> NoArgument, rm |-> NoArgument, vvvv |-> NoArgument,
     address_size |-> "QWORD", immediate_opcode_byte |-> <<>>,
     ireg |-> NoArgument, remaining_arguments |-> <<>>,
     extern_accepted |-> TRUE, fail_at |-> 0]

Gp(id)  == Reg("gp", id)
Vec(id) == Reg("vec", id)
Rip     == Reg("rip", RBP)

Bases == {NoRegister, Gp(RAX), Gp(RSP), Gp(RBP), Gp(R12), Gp(R13), Rip}
Indexes ==
    {NoIndex, Index(Gp(RCX), 2, "None"), Index(Gp(R9), 8, "scale"),
     Index(Vec(3), 4, "None"), Index(Vec(R12), 1, "scale")}
MemoryReferences ==
    {IndirectMemoryReference(ds, b, i, d) :
        ds \in {"None", "BYTE", "WORD", "DWORD"}, b \in Bases, i \in Indexes,
        d \in {"None", "disp"}}
OtherRms ==
    {NoArgument,
     DirectRegisterReference(Gp(RAX), "QWORD"), DirectRegisterReference(Gp(2), "DWORD"),
     DirectRegisterReference(Gp(R9), "QWORD"),
     IndirectJumpTarget(JumpVariant("Bare", "foo"), "DWORD"),
     IndirectJumpTarget(JumpVariant("Global", "bar"), "DWORD"),
     Immediate("imm", "BYTE"),
     JumpTarget(JumpVariant("Forward", "bar"), "DWORD")}

\* every combination of what the prefix encoder reads
PrefixInputs ==
    {[Plain EXCEPT !.mode = m, !.signature = Signature(f, o),
                   !.size_prefix_is_needed = sp, !.legacy_prefix_modification = lp,
                   !.rex_prefix_is_needed = rx, !.rex_w_prefix_is_needed = w,
                   !.vex_l_prefix_is_needed = l, !.reg = r, !.rm = a, !.vvvv = v] :
        m \in Modes, f \in {{}, {"VEX_OP"}, {"XOP_OP"}}, o \in {<<1, 88>>, <<137>>},
        sp \in BOOLEAN, lp \in {<<>>, <<243>>, <<242>>, <<240>>},
        rx \in BOOLEAN, w \in BOOLEAN, l \in BOOLEAN,
        r \in {NoArgument, DirectRegisterReference(Vec(RAX), "OWORD"),
               DirectRegisterReference(Gp(R9), "QWORD")},
        a \in {NoArgument, DirectRegisterReference(Vec(2), "OWORD"),
               DirectRegisterReference(Gp(R9), "QWORD"),
               IndirectMemoryReference("None", Gp(R13), NoIndex, "None"),
               IndirectMemoryReference("None", Gp(RAX), Index(Gp(R12), 1, "None"), "None")},
        v \in {NoArgument, DirectRegisterReference(Vec(RCX), "OWORD"),
               DirectRegisterReference(Vec(R9), "OWORD")}}

\* every combination of what push_r_m_last_opcode_byte reads
OpcodeInputs ==
    {[Plain EXCEPT !.mode = m, !.signature = Signature(f, o), !.rm = a] :
        m \in Modes, f \in {{"SHORT_ARG"}, {}, {"VEX_OP", "SHORT_ARG"}},
        o \in {<<>>, <<184>>, <<15, 200>>},
        a \in OtherRms \cup
              {IndirectMemoryReference("None", Gp(RAX), NoIndex, "None")}}

\* every combination of what push_addressing reads
AddressingInputs ==
    {[Plain EXCEPT !.mode = m, !.reg = r, !.rm = a, !.address_size = s] :
        m \in Modes,
        r \in {NoArgument, DirectRegisterReference(Gp(RAX), "DWORD"),
               DirectRegisterReference(Gp(11), "DWORD")},
        a \in MemoryReferences \cup OtherRms, s \in {"WORD", "QWORD"}}

ImmediateLikeArguments ==
    {Immediate("imm", "BYTE"), Immediate("imm32", "DWORD"),
     JumpTarget(JumpVariant("Bare", "foo"), "DWORD"),
     JumpTarget(JumpVariant("Global", "bar"), "DWORD"),
     JumpTarget(JumpVariant("Forward", "baz"), "BYTE"),
     DirectRegisterReference(Gp(RCX), "DWORD")}

ArgumentLists ==
    UNION {[1..n -> ImmediateLikeArguments] : n \in 0..MaxArgs}

\* every combination of what the stages after push_addressing read
ImmediateInputs ==
    {[Plain EXCEPT !.mode = m, !.signature = Signature({}, <<233>>), !.rm = a,
                   !.immediate_opcode_byte = ob, !.ireg = ir,
                   !.remaining_arguments = args, !.extern_accepted = x] :
        m \in Modes,
        a \in {NoArgument, IndirectJumpTarget(JumpVariant("Global", "bar"), "DWORD"),
               IndirectMemoryReference("None", Rip, NoIndex, "disp")},
        ob \in {<<>>, <<58>>},
        ir \in {NoArgument, DirectRegisterReference(Vec(3), "OWORD"),
                Immediate("imm", "BYTE")},
        args \in ArgumentLists, x \in BOOLEAN}

\* sessions whose writer fails at one operation: an instruction of no byte,
\* RET, JMP rel32 foo, and an opcode with a BYTE immediate
WriterInputs ==
    {[Plain EXCEPT !.signature = Signature({}, i[1]), !.remaining_arguments = i[2],
                   !.fail_at = k] :
        i \in {<<<<>>, <<>>>>, <<<<195>>, <<>>>>,
               <<<<233>>, <<JumpTarget(JumpVariant("Bare", "foo"), "DWORD")>>>>,
               <<<<106>>, <<Immediate("imm", "BYTE")>>>>},
        k \in 1..MaxFailAt}

\* the instructions of the specification's concrete scenarios
Scenarios ==
    {\* MOV rax, rcx
     [Plain EXCEPT !.rex_prefix_is_needed = TRUE, !.rex_w_prefix_is_needed = TRUE,
                   !.reg = DirectRegisterReference(Gp(RCX), "QWORD"),
                   !.rm = DirectRegisterReference(Gp(RAX), "QWORD")],
     \* MOV [rbp], al
     [Plain EXCEPT !.signature = Signature({}, <<136>>),
                   !.reg = DirectRegisterReference(Gp(RAX), "BYTE"),
                   !.rm = IndirectMemoryReference("None", Gp(RBP), NoIndex, "None")],
     \* MOV eax, [0x12345678]
     [Plain EXCEPT !.signature = Signature({}, <<139>>),
                   !.reg = DirectRegisterReference(Gp(RAX), "DWORD"),
                   !.rm = IndirectMemoryReference("None", NoRegister, NoIndex, "0x12345678")],
     \* JMP rel32 foo
     [Plain EXCEPT !.signature = Signature({}, <<233>>),
                   !.remaining_arguments = <<JumpTarget(JumpVariant("Bare", "foo"), "DWORD")>>],
     \* LEA rax, [rip + 0x10]
     [Plain EXCEPT !.signature = Signature({}, <<141>>),
                   !.rex_prefix_is_needed = TRUE, !.rex_w_prefix_is_needed = TRUE,
                   !.reg = DirectRegisterReference(Gp(RAX), "QWORD"),
                   !.rm = IndirectMemoryReference("None", Rip, NoIndex, "0x10")],
     \* VADDPS xmm0, xmm1, xmm2
     [Plain EXCEPT !.signature = Signature({"VEX_OP"}, <<1, 88>>),
                   !.reg = DirectRegisterReference(Vec(RAX), "OWORD"),
                   !.vvvv = DirectRegisterReference(Vec(RCX), "OWORD"),
                   !.rm = DirectRegisterReference(Vec(2), "OWORD")]}

Instructions ==
    PrefixInputs \cup OpcodeInputs \cup AddressingInputs \cup ImmediateInputs
    \cup WriterInputs \cup Scenarios

(***************************************************************************)
(* The session: StatementsBuffer::new, the stages of one instruction in    *)
(* the order the caller runs them, StatementsBuffer::finish.               *)
(***************************************************************************)
self_now == Self(accumulated_bytes_so_far, writer)

\* where the session goes after a stage that ended with status
after(status, next) ==
    IF status = "Ok" THEN next ELSE IF status = "Panic" THEN "panicked" ELSE "failed"

Outcome(stage, status, from) == [stage |-> stage, status |-> status, from |-> from]

Init ==
    /\ insn \in Instructions
    /\ write_preamble(NewWriter(insn.fail_at)).ok
    /\ pc = "prefixes"
    /\ accumulated_bytes_so_far = <<>>
    /\ writer = write_preamble(NewWriter(insn.fail_at)).writer
    /\ opcode_bytes = insn.signature.opcode_bytes
    /\ rm = insn.rm
    /\ remaining_arguments = insn.remaining_arguments
    /\ relocations = new_relocations(insn.mode)
    /\ outcome = Outcome("new", "Ok", 0)

Prefixes ==
    /\ pc = "prefixes"
    /\ LET r == push_vex_and_xop_prefixes_or_operand_size_modification_and_rex_prefixes(
                    self_now, insn.mode, insn.signature, opcode_bytes,
                    insn.size_prefix_is_needed, insn.legacy_prefix_modification,
                    insn.rex_prefix_is_needed, insn.rex_w_prefix_is_needed,
                    insn.vex_l_prefix_is_needed, insn.reg, rm, insn.vvvv)
       IN  /\ accumulated_bytes_so_far' = r.self.accumulated_bytes_so_far
           /\ writer' = r.self.writer
           /\ opcode_bytes' = r.tail
           /\ outcome' = Outcome("prefixes", r.status, Len(accumulated_bytes_so_far))
           /\ pc' = after(r.status, "opcode")
    /\ UNCHANGED <<insn, rm, remaining_arguments, relocations>>

Opcode ==
    /\ pc = "opcode"
    /\ LET r == push_r_m_last_opcode_byte(self_now, insn.signature, opcode_bytes, rm)
       IN  /\ accumulated_bytes_so_far' = r.self.accumulated_bytes_so_far
           /\ writer' = r.self.writer
           /\ rm' = r.rm
           /\ outcome' = Outcome("opcode", r.status, Len(accumulated_bytes_so_far))
           /\ pc' = after(r.status, "addressing")
    /\ UNCHANGED <<insn, opcode_bytes, remaining_arguments, relocations>>

Addressing ==
    /\ pc = "addressing"
    /\ LET r == push_addressing(self_now, insn.mode, insn.signature, rm, insn.reg,
                    insn.address_size)
       IN  /\ accumulated_bytes_so_far' = r.self.accumulated_bytes_so_far
           /\ writer' = r.self.writer
           /\ relocations' = r.relocations
           /\ outcome' = Outcome("addressing", r.status, Len(accumulated_bytes_so_far))
           /\ pc' = after(r.status, "immediate_opcode_byte")
    /\ UNCHANGED <<insn, opcode_bytes, rm, remaining_arguments>>

ImmediateOpcodeByte ==
    /\ pc = "immediate_opcode_byte"
    /\ LET r == push_immediate_opcode_byte_after_addressing_displacement(self_now,
                    insn.immediate_opcode_byte, relocations)
       IN  /\ accumulated_bytes_so_far' = r.self.accumulated_bytes_so_far
           /\ writer' = r.self.writer
           /\ relocations' = r.relocations
    /\ outcome' = Outcome("immediate_opcode_byte", "Ok", Len(accumulated_bytes_so_far))
    /\ pc' = "register_in_immediate"
    /\ UNCHANGED <<insn, opcode_bytes, rm, remaining_arguments>>

RegisterInImmediate ==
    /\ pc = "register_in_immediate"
    /\ LET r == push_register_in_immediate(self_now, insn.ireg, remaining_arguments,
                    relocations)
       IN  /\ accumulated_bytes_so_far' = r.self.accumulated_bytes_so_far
           /\ writer' = r.self.writer
           /\ remaining_arguments' = r.remaining_arguments
           /\ relocations' = r.relocations
           /\ outcome' = Outcome("register_in_immediate", r.status, Len(accumulated_bytes_so_far))
           /\ pc' = after(r.status, "immediates")
    /\ UNCHANGED <<insn, opcode_bytes, rm>>

Immediates ==
    /\ pc = "immediates"
    /\ LET r == push_immediates(self_now, remaining_arguments, relocations,
                    insn.extern_accepted)
       IN  /\ accumulated_bytes_so_far' = r.self.accumulated_bytes_so_far
           /\ writer' = r.self.writer
           /\ remaining_arguments' = r.remaining_arguments
           /\ relocations' = r.relocations
           /\ outcome' = Outcome("immediates", r.status, Len(accumulated_bytes_so_far))
           /\ pc' = after(r.status, "encoded")
    /\ UNCHANGED <<insn, opcode_bytes, rm>>

\* finish() after the instruction, or after a stage returned an error
Finish ==
    /\ pc \in {"encoded", "failed"}
    /\ LET r == finish(self_now)
       IN  /\ accumulated_bytes_so_far' = r.self.accumulated_bytes_so_far
           /\ writer' = r.self.writer
           /\ pc' = IF r.status = "Ok" THEN "finished" ELSE "finish_failed"
    /\ UNCHANGED <<insn, opcode_bytes, rm, remaining_arguments, relocations, outcome>>

Next ==
    \/ Prefixes
    \/ Opcode
    \/ Addressing
    \/ ImmediateOpcodeByte
    \/ RegisterInImmediate
    \/ Immediates
    \/ Finish

Spec == Init /\ [][Next]_vars

(***************************************************************************)
(* What the properties below speak of.                                     *)
(***************************************************************************)
\* the literal bytes that reached the writer, in order
RECURSIVE FlushedBytes(_)
FlushedBytes(out) ==
    IF out = <<>> THEN <<>>
    ELSE (IF Head(out).t \in {"store", "byte"} THEN <<Head(out).v>> ELSE <<>>)
         \o FlushedBytes(Tail(out))

\* every literal byte emitted so far: flushed, then still accumulated
Stream == FlushedBytes(writer.out) \o accumulated_bytes_so_far

\* the bytes the last stage emitted
StageBytes == SubSeq(Stream, outcome.from + 1, Len(Stream))

\* a ModR/M or SIB byte by its three fields
FieldsByte(top, middle, low) == top * 64 + (middle % 8) * 8 + (low % 8)

\* the register number that goes to the reg field of the ModR/M byte
RegField == IF insn.reg.kind = "DirectRegisterReference" THEN insn.reg.register.id ELSE 0

\* the number of REX, 2-byte VEX, 3-byte VEX and XOP groups in the bytes of
\* a prefix sequence, read from position i on
RECURSIVE PrefixGroups(_, _)
PrefixGroups(bytes, i) ==
    IF i > Len(bytes) THEN 0
    ELSE CASE bytes[i] = 197 -> 1 + PrefixGroups(bytes, i + 2)
           [] bytes[i] \in {196, 143} -> 1 + PrefixGroups(bytes, i + 3)
           [] bytes[i] \in 64..79 -> 1 + PrefixGroups(bytes, i + 1)
           [] OTHER -> PrefixGroups(bytes, i + 1)

IsVex == contains_flags(insn.signature, "VEX_OP")
IsVexOrXop == intersects_flags(insn.signature, VexOperationOrXopOperation)

\* the prefix encoder has just returned Ok
PrefixesReturned == pc = "opcode"

\* C1: one call of the prefix encoder puts at most one prefix group (REX,
\* 2-byte VEX, 3-byte VEX or XOP) into the byte buffer.
C1_AtMostOnePrefixGroup ==
    PrefixesReturned => PrefixGroups(accumulated_bytes_so_far, 1) <= 1

\* the VEX bytes of the session's instruction, and the 2-byte VEX case
Byte1 == vex_byte1(insn.mode, insn.reg, insn.rm, Head(insn.signature.opcode_bytes))
Byte2 == vex_byte2(insn.rex_w_prefix_is_needed, insn.vvvv, insn.vex_l_prefix_is_needed,
                   vex_prefix_field(insn.size_prefix_is_needed,
                                    insn.legacy_prefix_modification))
TwoByteVexCase ==
    /\ IsVex
    /\ insn.signature.opcode_bytes # <<>>
    /\ Byte1 % 128 = 97
    /\ Byte2 < 128

IsVaddps ==
    /\ insn.signature = Signature({"VEX_OP"}, <<1, 88>>)
    /\ insn.mode = "Long"
    /\ insn.reg = DirectRegisterReference(Vec(RAX), "OWORD")
    /\ insn.vvvv = DirectRegisterReference(Vec(RCX), "OWORD")
    /\ insn.rm = DirectRegisterReference(Vec(2), "OWORD")
    /\ ~insn.size_prefix_is_needed /\ insn.legacy_prefix_modification = <<>>
    /\ ~insn.rex_w_prefix_is_needed /\ ~insn.vex_l_prefix_is_needed

\* C2: in the 2-byte VEX case the prefix encoder emits exactly 0xC5 and
\* (byte1 & 0x80) | (byte2 & 0x7F) and no further prefix byte; VADDPS xmm0,
\* xmm1, xmm2 encodes to exactly C5 F0 58 C2.
C2_TwoByteVexIsTheWholePrefix ==
    /\ (PrefixesReturned /\ TwoByteVexCase) =>
           accumulated_bytes_so_far =
               <<197, ((Byte1 \div 128) * 128) + (Byte2 % 128)>>
    /\ (pc = "encoded" /\ IsVaddps) => Stream = <<197, 240, 88, 194>>

\* the prefix encoder was called in Protected mode with rex_prefix_is_needed
RexInProtectedMode == insn.mode = "Protected" /\ insn.rex_prefix_is_needed

\* the prefix encoder has returned the REX.W-impossible error
RexErrorReturned ==
    outcome.stage = "prefixes" /\ outcome.status = RexImpossible /\ pc # "opcode"

\* C3 as claimed: for every signature, the prefix encoder called in Protected
\* mode with rex_prefix_is_needed returns the REX.W-impossible error, never Ok.
C3_RexErrorForEverySignature ==
    (RexInProtectedMode /\ pc # "prefixes") => RexErrorReturned

\* C3 as amended: for every signature with neither VEX_OP nor XOP_OP, the
\* prefix encoder called in Protected mode with rex_prefix_is_needed returns
\* the REX.W-impossible error, never Ok, and it pushes no REX byte; it
\* returns that error in no other situation.
C3_RexErrorForLegacySignature ==
    /\ (RexInProtectedMode /\ ~IsVexOrXop /\ pc # "prefixes") =>
           (RexErrorReturned /\ PrefixGroups(Stream, 1) = 0)
    /\ (outcome.status = RexImpossible) => (RexInProtectedMode /\ ~IsVexOrXop)

C3_Witness ==
    /\ pc = "failed" /\ RexErrorReturned
    /\ RexInProtectedMode /\ ~IsVexOrXop /\ insn.rex_w_prefix_is_needed

\* C4: push_r_m_last_opcode_byte on a SHORT_ARG signature returns normally
\* only when rm is a DirectRegisterReference, and then the whole opcode has
\* been emitted.
C4_ShortArgNeedsDirectRegister ==
    (pc = "addressing" /\ contains_flags(insn.signature, "SHORT_ARG")) =>
        /\ insn.rm.kind = "DirectRegisterReference"
        /\ Len(StageBytes) = Len(opcode_bytes)

\* the literal bytes emitted for the instruction
TotalBytes == Len(Stream)

Entries == relocations.entries

AddressingEnded == outcome.stage = "addressing"

OnlyPreambleWritten == \A i \in 1..Len(writer.out) : writer.out[i].t = "preamble"

\* rm is an IndirectMemoryReference that goes to the RIP-relative sub-encoder
RipRelativeCase ==
    /\ rm.kind = "IndirectMemoryReference"
    /\ rm.base.fam = "rip"
    /\ ~(rm.index.kind = "Some" /\ rm.index.register.fam = "vec")
    /\ insn.address_size # "WORD"

\* C6: RIP-relative in Protected mode: ModR/M (00, reg, RBP), exactly four
\* zero bytes, exactly one JumpTargetRelative relocation of DWORD over
\* Bare(displacement or zero); the displacement is not emitted.
C6_RipRelativeInProtectedMode ==
    (AddressingEnded /\ RipRelativeCase /\ insn.mode = "Protected") =>
        /\ outcome.status = "Ok"
        /\ StageBytes = <<FieldsByte(0, RegField, 5), 0, 0, 0, 0>>
        /\ Len(Entries) = 1
        /\ Entries[1].kind = "JumpTargetRelative"
        /\ Entries[1].size = "DWORD"
        /\ Entries[1].payload =
               JumpVariant("Bare", IF rm.displacement = "None" THEN "zero"
                                   ELSE rm.displacement)
        /\ OnlyPreambleWritten

C6_Witness ==
    /\ pc = "immediate_opcode_byte" /\ RipRelativeCase /\ insn.mode = "Protected"
    /\ rm.displacement # "None" /\ RegField = 11

\* rm is an ordinary IndirectMemoryReference with no base and no index
DisplacementOnlyCase ==
    /\ rm.kind = "IndirectMemoryReference"
    /\ rm.base.fam = "none" /\ rm.index.kind = "None"
    /\ rm.displacement # "None"
    /\ insn.address_size # "WORD"

IsMovEaxFromAbsolute ==
    /\ insn.signature = Signature({}, <<139>>) /\ insn.mode = "Long"
    /\ insn.reg = DirectRegisterReference(Gp(RAX), "DWORD")
    /\ insn.rm = IndirectMemoryReference("None", NoRegister, NoIndex, "0x12345678")
    /\ ~insn.rex_prefix_is_needed /\ ~insn.size_prefix_is_needed
    /\ insn.legacy_prefix_modification = <<>>

\* C7: displacement-only addressing: in Long mode ModR/M (00, reg, RSP), the
\* SIB byte 0x25 and a 4-byte displacement; in Protected mode ModR/M (00, reg,
\* RBP), no SIB and the displacement; MOV eax, [0x12345678] is encoded in
\* Long mode as 8B 04 25 and four displacement bytes.
C7_DisplacementOnly ==
    /\ (AddressingEnded /\ DisplacementOnlyCase) =>
           /\ outcome.status = "Ok"
           /\ Len(StageBytes) >= 1
           /\ StageBytes[1] = FieldsByte(0, RegField,
                                         IF insn.mode = "Long" THEN 4 ELSE 5)
           /\ insn.mode = "Long" => (Len(StageBytes) = 6 /\ StageBytes[2] = 37)
           /\ insn.mode = "Protected" => Len(StageBytes) = 5
    /\ (AddressingEnded /\ IsMovEaxFromAbsolute) =>
           (pc = "immediate_opcode_byte" /\ Len(Stream) = 7
            /\ SubSeq(Stream, 1, 3) = <<139, 4, 37>>)

\* rm is an ordinary IndirectMemoryReference with an RBP-like base and no
\* displacement
RbpBaseNoDisplacementCase ==
    /\ rm.kind = "IndirectMemoryReference"
    /\ rm.base.fam = "gp" /\ rm.base.id \in {5, 13}
    /\ ~(rm.index.kind = "Some" /\ rm.index.register.fam = "vec")
    /\ insn.address_size # "WORD"
    /\ rm.displacement = "None"

IsMovToRbp ==
    /\ insn.signature = Signature({}, <<136>>)
    /\ insn.reg = DirectRegisterReference(Gp(RAX), "BYTE")
    /\ insn.rm = IndirectMemoryReference("None", Gp(RBP), NoIndex, "None")
    /\ ~insn.rex_prefix_is_needed /\ ~insn.size_prefix_is_needed
    /\ insn.legacy_prefix_modification = <<>>

C9_FlushedExactlyOnce ==
    pc \in {"finished", "finish_failed"} => writer.flushes = 1

IsJmpRel32 ==
    /\ insn.signature = Signature({}, <<233>>) /\ insn.mode = "Long"
    /\ insn.rm = NoArgument /\ insn.ireg = NoArgument
    /\ insn.immediate_opcode_byte = <<>>
    /\ insn.remaining_arguments = <<JumpTarget(JumpVariant("Bare", "foo"), "DWORD")>>
    /\ ~insn.rex_prefix_is_needed /\ ~insn.size_prefix_is_needed
    /\ insn.legacy_prefix_modification = <<>>
    /\ insn.extern_accepted

\* C10: JMP rel32 foo in Long mode emits exactly E9 00 00 00 00 and records
\* exactly one relocation: JumpTargetRelative, Bare(foo), DWORD, at offset 1.
C10_JmpRel32 ==
    (pc = "encoded" /\ IsJmpRel32) =>
        /\ Stream = <<233, 0, 0, 0, 0>>
        /\ Entries = <<Relocation("JumpTargetRelative", 1, "DWORD",
                                  JumpVariant("Bare", "foo"))>>

\* the operand that push_addressing is about to encode is a memory reference
AddressingOfMemoryReference ==
    pc = "addressing" /\ rm.kind = "IndirectMemoryReference"

\* what the sub-encoder that the fixed order selects does to a memory
\* reference: vector index first, then 16-bit address size, then RIP base,
\* then the ordinary form
SelectedSubEncoder(self, operand) ==
    LET k == reg_k(insn.signature, insn.reg)
    IN  IF operand.index.kind = "Some" /\ operand.index.register.fam = "vec"
        THEN indirect_mod_rm_and_scaled_index_byte_addressing_mode_is_vector_scaled_index_byte(
                 self, insn.mode, k, operand.displacement_size, operand.base,
                 operand.index, operand.displacement)
        ELSE IF insn.address_size = "WORD"
        THEN indirect_mod_rm_and_scaled_index_byte_addressing_mode_is_16_bit(
                 self, insn.mode, k, operand.displacement_size, operand.base,
                 operand.displacement)
        ELSE IF operand.base.fam = "rip"
        THEN indirect_mod_rm_and_scaled_index_byte_addressing_mode_is_rip_relative(
                 self, k, operand.displacement, insn.mode)
        ELSE indirect_mod_rm_and_scaled_index_byte_addressing_mode_is_ordinary(
                 self, k, operand.displacement_size, operand.base, operand.index,
                 operand.displacement, insn.mode)

\* C11: for an IndirectMemoryReference rm, push_addressing does exactly what
\* one sub-encoder does, the first that matches in the order VSIB (vector
\* index), 16-bit addressing, RIP-relative (RIP base), ordinary: the bytes,
\* the writer, the relocations and the result of the step are those of that
\* sub-encoder; so a vector index under 16-bit address size is encoded as
\* VSIB and a RIP base under 16-bit address size by the 16-bit sub-encoder.
C11_DispatchOrder ==
    [][AddressingOfMemoryReference =>
         LET expected == SelectedSubEncoder(self_now, rm)
         IN  /\ Self(accumulated_bytes_so_far', writer') = expected.self
             /\ relocations' = expected.relocations
             /\ outcome'.status = expected.status]_vars

\* a vector index under 16-bit address size has been encoded, with the rm
\* field RSP and the SIB byte of the VSIB form
C11_Witness ==
    /\ AddressingEnded /\ outcome.status = "Ok"
    /\ insn.rm.kind = "IndirectMemoryReference"
    /\ insn.rm.index.kind = "Some" /\ insn.rm.index.register.fam = "vec"
    /\ insn.address_size = "WORD"
    /\ Len(StageBytes) >= 2
    /\ StageBytes[1] % 8 = RSP
    /\ StageBytes[2] % 64 = (insn.rm.index.register.id % 8) * 8
                             + (IF insn.rm.base.fam = "none" THEN RBP ELSE insn.rm.base.id % 8)

\* rm is an IndirectMemoryReference whose index is a vector register
VsibCase ==
    /\ rm.kind = "IndirectMemoryReference"
    /\ rm.index.kind = "Some" /\ rm.index.register.fam = "vec"

\* the two bits of a scale of 1, 2, 4 or 8
ScaleField(scale) ==
    CASE scale = 1 -> 0 [] scale = 2 -> 1 [] scale = 4 -> 2 [] scale = 8 -> 3

\* the MOD that C12 states for a VSIB operand
VsibMod ==
    IF rm.base.fam = "none" THEN 0
    ELSE IF rm.displacement = "None" \/ rm.displacement_size = "BYTE" THEN 1
    ELSE 2

\* the ModR/M byte and the SIB byte that C12 states for a VSIB operand
VsibHead ==
    <<FieldsByte(VsibMod, RegField, 4),
      FieldsByte(ScaleField(rm.index.scale), rm.index.register.id,
                 IF rm.base.fam = "none" THEN 5 ELSE rm.base.id)>>

\* C12: every VSIB operand is encoded as ModR/M with rm=RSP, a SIB byte
\* (scale, index & 7, base-or-RBP & 7) and a displacement that is never
\* empty: MOD=00 and four bytes without a base; with a base MOD=01 and one
\* byte when the displacement is BYTE or absent, MOD=10 and four bytes
\* otherwise; an absent displacement is emitted as zero bytes.
C12_VsibAlwaysSibAndDisplacement ==
    (AddressingEnded /\ VsibCase) =>
        /\ outcome.status = "Ok"
        /\ Len(StageBytes) = 2 + (IF VsibMod = 1 THEN 1 ELSE 4)
        /\ SubSeq(StageBytes, 1, 2) = VsibHead
        /\ rm.displacement = "None" =>
               \A i \in 3..Len(StageBytes) : StageBytes[i] = 0

\* the part of C12 that the encoder does: without a scale expression and
\* without a displacement expression, the bytes are as C12 states; with
\* either of them the encoder does not return
VsibWithoutExpressions ==
    (AddressingEnded /\ VsibCase) =>
        IF rm.index.expression = "None" /\ rm.displacement = "None"
        THEN /\ outcome.status = "Ok"
             /\ StageBytes = VsibHead \o (IF VsibMod = 1 THEN <<0>> ELSE <<0, 0, 0, 0>>)
        ELSE outcome.status = "Panic"

\* the stage that has just ended made a symbolic emission as its last
\* operation: push_addressing with a displacement expression (every
\* sub-encoder but the RIP-relative one of Protected mode, and only after
\* the SIB byte was pushed), or push_register_in_immediate with a register
\* and an acceptable first remaining argument
SymbolicEmissionMade ==
    \/ /\ outcome.stage = "addressing"
       /\ rm.kind = "IndirectMemoryReference" /\ rm.displacement # "None"
       /\ LET scale_by_expression ==
                  rm.index.kind = "Some" /\ rm.index.expression # "None"
          IN  IF VsibCase THEN ~scale_by_expression
              ELSE IF insn.address_size = "WORD" THEN rm.base.fam # "none"
              ELSE IF rm.base.fam = "rip" THEN insn.mode = "Long"
              ELSE ~scale_by_expression
    \/ /\ outcome.stage = "register_in_immediate"
       /\ insn.ireg.kind = "DirectRegisterReference"
       /\ \/ insn.remaining_arguments = <<>>
          \/ Head(insn.remaining_arguments) = Immediate("imm", "BYTE")

\* the symbolic slots recorded in the writer's output
Slots(out) == {i \in 1..Len(out) : out[i].t = "expression"}

\* C13: a symbolic emission first flushes every accumulated literal byte to
\* the writer, which leaves the literal buffer empty, and then records a
\* symbolic slot in the writer's output, after those bytes.
C13_SymbolicEmissionFlushesThenRecords ==
    (SymbolicEmissionMade /\ insn.fail_at = 0) =>
        /\ outcome.status = "Ok"
        /\ accumulated_bytes_so_far = <<>>
        /\ Slots(writer.out) # {}
        /\ \A i \in Slots(writer.out) :
               \A j \in 1..Len(writer.out) :
                   writer.out[j].t \in {"store", "byte"} => j < i

\* the part of C13 that the emissions do: the literal bytes are flushed and
\* the buffer is left empty; then the emission halts and records nothing
SymbolicEmissionFlushesThenHalts ==
    (SymbolicEmissionMade /\ insn.fail_at = 0) =>
        /\ outcome.status = "Panic"
        /\ accumulated_bytes_so_far = <<>>
        /\ Len(FlushedBytes(writer.out)) >= outcome.from
        /\ Slots(writer.out) = {}

\* push_register_in_immediate has just ended
RegisterInImmediateEnded == outcome.stage = "register_in_immediate"

\* the bytes by which the relocations were bumped before that stage
BumpedBefore == IF insn.immediate_opcode_byte # <<>> THEN 1 ELSE 0

FirstIsByteImmediate ==
    /\ insn.remaining_arguments # <<>>
    /\ Head(insn.remaining_arguments).kind = "Immediate"
    /\ Head(insn.remaining_arguments).size = "BYTE"

\* C14: push_register_in_immediate with a DirectRegisterReference ireg
\* returns having emitted exactly one unsigned BYTE slot whose top nibble is
\* register.code << 4 and having bumped the relocations by 1; a first
\* remaining argument that is a BYTE Immediate is removed and OR-ed in under
\* mask 0xF; in every other case the register byte is emitted alone and the
\* remaining arguments are unchanged.  With ireg absent nothing is emitted
\* and nothing is consumed.
C14_RegisterInImmediate ==
    RegisterInImmediateEnded =>
        IF insn.ireg.kind = "DirectRegisterReference"
        THEN /\ outcome.status = "Ok"
             /\ relocations.offset = BumpedBefore + 1
             /\ remaining_arguments =
                    IF FirstIsByteImmediate THEN Tail(insn.remaining_arguments)
                    ELSE insn.remaining_arguments
             /\ \E i \in Slots(writer.out) :
                    /\ Slots(writer.out) = {i}
                    /\ writer.out[i].v.literal = (insn.ireg.register.id * 16) % 256
                    /\ writer.out[i].v.mask = IF FirstIsByteImmediate THEN 15 ELSE 0
        ELSE /\ outcome.status = "Ok"
             /\ StageBytes = <<>> /\ Slots(writer.out) = {}
             /\ relocations.offset = BumpedBefore
             /\ remaining_arguments = insn.remaining_arguments

\* what push_register_in_immediate does: with a register it never returns
\* Ok, and a first remaining argument is removed whatever it is; without a
\* DirectRegisterReference it does nothing
RegisterInImmediateAsEncoded ==
    RegisterInImmediateEnded =>
        IF insn.ireg.kind = "DirectRegisterReference"
        THEN /\ outcome.status = "Panic"
             /\ relocations.offset = BumpedBefore
             /\ remaining_arguments =
                    IF insn.remaining_arguments # <<>>
                    THEN Tail(insn.remaining_arguments) ELSE <<>>
        ELSE /\ outcome.status = "Ok"
             /\ StageBytes = <<>>
             /\ relocations.offset = BumpedBefore
             /\ remaining_arguments = insn.remaining_arguments

\* the prefix encoder has just ended
PrefixesEnded == outcome.stage = "prefixes"

\* bit 3 of the number of a register, 0 for an absent register
Bit3(present, id) == IF present THEN (id \div 8) % 2 ELSE 0

\* the R, X and B bits of C15, from the reg and rm arguments
RexR == Bit3(insn.reg.kind = "DirectRegisterReference",
             IF insn.reg.kind = "DirectRegisterReference" THEN insn.reg.register.id ELSE 0)
RexX == Bit3(insn.rm.kind = "IndirectMemoryReference" /\ insn.rm.index.kind = "Some",
             IF insn.rm.kind = "IndirectMemoryReference" /\ insn.rm.index.kind = "Some"
             THEN insn.rm.index.register.id ELSE 0)
RexB ==
    CASE insn.rm.kind = "DirectRegisterReference" -> Bit3(TRUE, insn.rm.register.id)
      [] insn.rm.kind = "IndirectMemoryReference" ->
            Bit3(insn.rm.base.fam # "none", insn.rm.base.id)
      [] OTHER -> 0

\* the legacy prefix bytes that C15 states
LegacyPrefixBytes ==
    insn.legacy_prefix_modification
    \o (IF insn.size_prefix_is_needed THEN <<102>> ELSE <<>>)
    \o (IF insn.rex_prefix_is_needed
        THEN <<64 + (IF insn.rex_w_prefix_is_needed THEN 8 ELSE 0)
                  + 4 * RexR + 2 * RexX + RexB>>
        ELSE <<>>)

IsMovRaxRcx ==
    /\ insn.signature = Signature({}, <<137>>) /\ insn.mode = "Long"
    /\ insn.rex_prefix_is_needed /\ insn.rex_w_prefix_is_needed
    /\ ~insn.size_prefix_is_needed /\ insn.legacy_prefix_modification = <<>>
    /\ insn.reg = DirectRegisterReference(Gp(RCX), "QWORD")
    /\ insn.rm = DirectRegisterReference(Gp(RAX), "QWORD")
    /\ insn.immediate_opcode_byte = <<>> /\ insn.ireg = NoArgument
    /\ insn.remaining_arguments = <<>>

\* C15: for a signature with neither VEX_OP nor XOP_OP in Long mode the
\* prefix encoder returns the opcode slice unchanged and emits, in this
\* order and nothing else, the legacy modification byte if supplied, 0x66 if
\* the size prefix is needed and, if REX is needed, the one byte
\* 0x40 | W<<3 | R<<2 | X<<1 | B; MOV rax, rcx with REX.W is 48 89 C8 with
\* no relocation.
C15_LegacyPrefixesAndRex ==
    /\ (PrefixesEnded /\ ~IsVexOrXop /\ insn.mode = "Long") =>
           /\ outcome.status = "Ok"
           /\ StageBytes = LegacyPrefixBytes
           /\ opcode_bytes = insn.signature.opcode_bytes
    /\ (IsMovRaxRcx /\ pc \in {"encoded", "finished"}) =>
           (Stream = <<72, 137, 200>> /\ Entries = <<>>)

\* all three prefixes were emitted for a memory operand whose index is R12
C15_Witness ==
    /\ PrefixesEnded /\ ~IsVexOrXop /\ insn.mode = "Long"
    /\ insn.legacy_prefix_modification = <<243>> /\ insn.size_prefix_is_needed
    /\ insn.rex_prefix_is_needed /\ insn.rex_w_prefix_is_needed
    /\ insn.rm.kind = "IndirectMemoryReference" /\ RexX = 1 /\ RexR = 1
    /\ StageBytes = <<243, 102, 78>>

\* push_addressing has returned an encoding of a memory reference made by
\* the VSIB, the RIP-relative or the ordinary sub-encoder
EncodedWith32Or64BitAddressing ==
    /\ AddressingEnded /\ outcome.status = "Ok"
    /\ rm.kind = "IndirectMemoryReference"
    /\ (VsibCase \/ insn.address_size # "WORD")
    /\ StageBytes # <<>>

\* the emitted ModR/M byte announces a SIB byte: MOD is not 11 and the rm
\* field is 100b
RmFieldAnnouncesSib ==
    StageBytes[1] \div 64 # 3 /\ StageBytes[1] % 8 = 4

\* the SIB byte of the operand: scale, index (100b for none), base (101b for
\* none)
SibOfOperand ==
    FieldsByte(IF rm.index.kind = "Some" THEN ScaleField(rm.index.scale) ELSE 0,
               IF rm.index.kind = "Some" THEN rm.index.register.id ELSE 4,
               IF rm.base.fam = "none" THEN 5 ELSE rm.base.id)

\* C16: in every encoding of the VSIB, RIP-relative and ordinary
\* sub-encoders, a ModR/M byte with MOD # 11 and rm field 100b is followed
\* by the SIB byte of the operand; so a base RSP or R12 without an index is
\* followed by a SIB byte before its displacement.
C16_SibFollowsRmRsp ==
    (EncodedWith32Or64BitAddressing /\ RmFieldAnnouncesSib) =>
        (Len(StageBytes) >= 2 /\ StageBytes[2] = SibOfOperand)

\* where C16 holds of the encoder: every operand but a base with
\* code & 7 = 4 and no index
SibFollowsRmRspButForBareRspBase ==
    (EncodedWith32Or64BitAddressing /\ RmFieldAnnouncesSib) =>
        IF rm.index.kind = "None" /\ rm.base.fam = "gp" /\ rm.base.id % 8 = 4
        THEN StageBytes = <<FieldsByte(0, RegField, 4)>>
        ELSE Len(StageBytes) >= 2 /\ StageBytes[2] = SibOfOperand

\* the four requests of a compressed legacy prefix: none, the operand-size
\* prefix, the legacy modification 0xF3, the legacy modification 0xF2
PrefixRequests ==
    {[size |-> FALSE, modification |-> <<>>], [size |-> TRUE, modification |-> <<>>],
     [size |-> FALSE, modification |-> <<243>>],
     [size |-> FALSE, modification |-> <<242>>]}

RequestedPrefix ==
    [size |-> insn.size_prefix_is_needed,
     modification |-> insn.legacy_prefix_modification]

\* the prefix bytes of the instruction of this session, had it requested
\* another compressed legacy prefix
PrefixBytesWith(request) ==
    push_vex_and_xop_prefixes_or_operand_size_modification_and_rex_prefixes(
        Self(<<>>, writer), insn.mode, insn.signature, insn.signature.opcode_bytes,
        request.size, request.modification, insn.rex_prefix_is_needed,
        insn.rex_w_prefix_is_needed, insn.vex_l_prefix_is_needed, insn.reg, insn.rm,
        insn.vvvv).self.accumulated_bytes_so_far

\* the VEX/XOP branch has encoded one of the four requests
VexPrefixEncoded ==
    /\ PrefixesEnded /\ outcome.status = "Ok" /\ IsVexOrXop
    /\ RequestedPrefix \in PrefixRequests

\* C17: in the VEX/XOP branch the pp field of byte2 is different for each of
\* the four requests (none, operand-size prefix, 0xF3, 0xF2), so an
\* instruction that differs from this one only in that request gets
\* different prefix bytes.
C17_PpFieldIsInjective ==
    VexPrefixEncoded =>
        \A other \in PrefixRequests \ {RequestedPrefix} :
            /\ StageBytes[Len(StageBytes)] % 4
                   # vex_prefix_field(other.size, other.modification)
            /\ StageBytes # PrefixBytesWith(other)

\* what the pp field is: 00 for none, 01 for the operand-size prefix and
\* for 0xF3 alike, 11 for 0xF2
PpFieldAsEncoded ==
    VexPrefixEncoded =>
        /\ StageBytes = PrefixBytesWith(RequestedPrefix)
        /\ StageBytes[Len(StageBytes)] % 4 =
               CASE RequestedPrefix.size -> 1
                 [] RequestedPrefix.modification = <<243>> -> 1
                 [] RequestedPrefix.modification = <<242>> -> 3
                 [] OTHER -> 0

\* finish() is running: its first operation is flush_bytes on the bytes
\* accumulated so far
FinishStep ==
    pc \in {"encoded", "failed"} /\ pc' \in {"finished", "finish_failed"}

\* the number of writes that flush_bytes makes for a buffer of n bytes when
\* none of them fails
FlushWrites(n) == IF n = 0 THEN 0 ELSE IF n = 1 THEN 3 ELSE 2 * n + 3

\* the write that fails is one of those of the flush_bytes of finish()
WriteFailsInFlush ==
    /\ writer.fail_at > writer.ops
    /\ writer.fail_at <= writer.ops + FlushWrites(Len(accumulated_bytes_so_far))

\* every accumulated byte has reached the writer, in push order, and the
\* buffer is empty
AllBytesWritten ==
    /\ FlushedBytes(writer'.out) = FlushedBytes(writer.out) \o accumulated_bytes_so_far
    /\ accumulated_bytes_so_far' = <<>>

\* C18: flush_bytes loses no literal byte when the writer fails: finish()
\* returns Ok, and so did its flush_bytes, only if every accumulated byte
\* was written in push order and the buffer is then empty; and when a write
\* of flush_bytes fails, an Err is returned and accumulated_bytes_so_far is
\* unchanged.
C18_FlushLosesNoByte ==
    [][FinishStep =>
         /\ pc' = "finished" => AllBytesWritten
         /\ WriteFailsInFlush =>
                (pc' = "finish_failed"
                 /\ accumulated_bytes_so_far' = accumulated_bytes_so_far)]_vars

\* what flush_bytes does under a failing writer: of its writes only those of
\* the bytes and of the separators of a buffer of two bytes or more are
\* checked; there a failure returns Err with the buffer unchanged.  Any
\* other failing write is ignored: the buffer is cleared and Ok is returned.
FlushChecksOnlyTheLoop ==
    [][(FinishStep /\ WriteFailsInFlush) =>
         LET n == Len(accumulated_bytes_so_far)
             k == writer.fail_at - writer.ops
         IN  IF n >= 2 /\ k \in 3..(2 * n + 1)
             THEN /\ pc' = "finish_failed"
                  /\ accumulated_bytes_so_far' = accumulated_bytes_so_far
             ELSE /\ pc' = "finished" /\ accumulated_bytes_so_far' = <<>>
                  /\ (n = 1 /\ k = 2) =>
                         FlushedBytes(writer'.out) = FlushedBytes(writer.out)]_vars
====
